---------------------------- MODULE Spec2Model ----------------------------
(***************************************************************************)
(* GanttDebugger (src/debugger.js): a recorder that replaces the callable  *)
(* members of a live object by timing wrappers and keeps one statistics    *)
(* record per member.                                                      *)
(*                                                                         *)
(* The state is the recorder's fields (stats, originalFunctions,           *)
(* callStack, isActive, startTime), the members of the instrumented        *)
(* object (instance), the monotonic clock performance.now(), and the       *)
(* JavaScript call stack of member invocations that are in flight          *)
(* (frames).  JavaScript is single-threaded, so each step is atomic: the   *)
(* part of a wrapper before the original function is called (Call), the    *)
(* part after the original function returned or threw (Return), and the    *)
(* recorder's own methods, which the page may call at any time, also from  *)
(* inside a member that is being measured.                                 *)
(*                                                                         *)
(* Real numbers are kept exact: durations and timestamps are integers      *)
(* (milliseconds), quotients are pairs <<numerator, denominator>>.         *)
(***************************************************************************)
EXTENDS Integers, Sequences, FiniteSets, TLC

\* ----------------------------------------------------------------- bounds
MaxCalls == 3        \* member invocations in one run of Spec
RingCalls == 12      \* member invocations in one run of SpecRing
MaxRamp == 10        \* longest run of calls taking 1, 2, 3, ... ms in SpecReport
MaxSamples == 3      \* longest free history of one member in SpecReport

\* ------------------------------------------------------- program constants
HistoryCap == 10     \* callHistory keeps the last 10 calls
RecentCount == 5     \* getStats shows the last 5 of them
HotspotCount == 5    \* getHotspots lists the first 5 under each key
Infinity == 1000000  \* Number.POSITIVE_INFINITY: above every duration
Null == 0 - 1        \* null: no timestamp is negative

\* The members an instrumented object may have, in the order
\* Object.getOwnPropertyNames() lists them, which is the order in which
\* wrapFunctions() inserts their records into the stats map.
FuncOrder == <<"f", "g", "h", "i", "j", "k">>
AllFuncs == {FuncOrder[i] : i \in 1..Len(FuncOrder)}
\* The members of the object instrumented in Spec and SpecRing.
Funcs == {"f", "g"}
Args == {"a1", "a2"}
\* How long the body of an original function runs, in milliseconds.
Durations == {0, 1}

VARIABLES
    stats,              \* this.stats: funcName -> record
    originalFunctions,  \* this.originalFunctions (its keys)
    instance,           \* ganttInstance[prop]: "wrapper" or "original"
    callStack,          \* this.callStack
    isActive,           \* this.isActive
    startTime,          \* this.startTime
    clock,              \* performance.now()
    memory,             \* whether performance.memory exists in this browser
    frames,             \* member invocations in flight, innermost last
    applied,            \* what this step applied an original function to, if anything
    handed,             \* what this step handed the caller of a member, if anything
    callsLeft,          \* invocations the page still makes
    destroyed,          \* history: destroy() has been called
    stale,              \* history: observed calls in flight whose callStack entry
                        \*          was cleared by reset() or destroy()
    log,                \* history: observations completed since the last reset
    report              \* what the last getStats() or getHotspots() returned

vars == <<stats, originalFunctions, instance, callStack, isActive, startTime,
          clock, memory, frames, applied, handed, callsLeft, destroyed, stale, log,
          report>>

\* ---------------------------------------------------------------- helpers
Min(a, b) == IF a <= b THEN a ELSE b
Max(a, b) == IF a >= b THEN a ELSE b

RECURSIVE SumSeq(_)
SumSeq(s) == IF s = <<>> THEN 0 ELSE Head(s) + SumSeq(Tail(s))

RECURSIVE MinSeq(_)
MinSeq(s) == IF Len(s) = 1 THEN s[1] ELSE Min(Head(s), MinSeq(Tail(s)))

RECURSIVE MaxSeq(_)
MaxSeq(s) == IF Len(s) = 1 THEN s[1] ELSE Max(Head(s), MaxSeq(Tail(s)))

\* Array.prototype.slice(-n): the last n elements, in order
SliceLast(s, n) == IF Len(s) <= n THEN s ELSE SubSeq(s, Len(s) - n + 1, Len(s))

\* Array.prototype.pop(): removes the last element; a no-op on an empty array
Pop(s) == IF s = <<>> THEN <<>> ELSE SubSeq(s, 1, Len(s) - 1)

\* a / b on reals, kept as a pair; b > 0
Quot(a, b) == <<a, b>>
Zero == <<0, 1>>
RatEq(p, q) == p[1] * q[2] = q[1] * p[2]
RatLe(p, q) == p[1] * q[2] <= q[1] * p[2]

\* !x for a value that is null or a number
Falsy(x) == x = Null \/ x = 0

\* performance.memory ? performance.memory.usedJSHeapSize : 0
\* Where the browser has performance.memory, the heap of the page is taken
\* to grow by one kilobyte per millisecond of work.
UsedJSHeapSize(t) == IF memory THEN 1024 * t ELSE 0

\* ------------------------------------------------------------ the records
InitialStats ==
    [count |-> 0, totalTime |-> 0, times |-> <<>>, minTime |-> Infinity,
     maxTime |-> 0, errors |-> 0, lastCalled |-> Null, firstCalled |-> Null,
     callsPerSecond |-> Zero, avgStackDepth |-> Zero, totalStackDepth |-> 0,
     memoryBefore |-> 0, memoryAfter |-> 0, callHistory |-> <<>>]

\* (a slip: pop() for shift(), which evicts the newest entry)
PushHistoryEvictNewest(h, e) ==
    LET pushed == Append(h, e)
    IN  IF Len(pushed) > HistoryCap THEN SubSeq(pushed, 1, HistoryCap) ELSE pushed

\* stats.callHistory.push(e); if (length > 10) shift()
PushHistory(h, e) ==
    LET pushed == Append(h, e)
    IN  IF Len(pushed) > HistoryCap THEN Tail(pushed) ELSE pushed

\* (a slip: the minimum is overwritten by the latest duration)
UpdateExtremaLatestMin(s, duration) ==
    [minTime |-> duration, maxTime |-> Max(s.maxTime, duration)]

\* stats.minTime = Math.min(...); stats.maxTime = Math.max(...)
UpdateExtrema(s, duration) ==
    [minTime |-> Min(s.minTime, duration), maxTime |-> Max(s.maxTime, duration)]

\* the try branch of the wrapper after the original function returned
RecordSuccess(s, fr, duration, memoryAfter) ==
    LET count == s.count + 1
        totalStackDepth == s.totalStackDepth + fr.stackDepth
        firstCalled == IF Falsy(s.firstCalled) THEN fr.currentTime ELSE s.firstCalled
        timeSinceFirst == fr.currentTime - firstCalled   \* in ms; /1000 below
        extrema == UpdateExtrema(s, duration)
    IN  [count |-> count,
         totalTime |-> s.totalTime + duration,
         times |-> Append(s.times, duration),
         minTime |-> extrema.minTime,
         maxTime |-> extrema.maxTime,
         errors |-> s.errors,
         lastCalled |-> fr.currentTime,
         firstCalled |-> firstCalled,
         callsPerSecond |-> IF timeSinceFirst > 0
                            THEN Quot(count * 1000, timeSinceFirst) ELSE Zero,
         avgStackDepth |-> Quot(totalStackDepth, count),
         totalStackDepth |-> totalStackDepth,
         memoryBefore |-> s.memoryBefore + fr.memoryBefore,
         memoryAfter |-> s.memoryAfter + memoryAfter,
         callHistory |-> PushHistory(s.callHistory,
                            [timestamp |-> fr.relativeTime,
                             duration |-> duration,
                             stackDepth |-> fr.stackDepth,
                             memoryDelta |-> memoryAfter - fr.memoryBefore])]

\* (a slip: a failed call counts as an error but not as a call)
RecordErrorNoCount(s, fr, duration) ==
    [s EXCEPT !.errors = @ + 1,
              !.totalTime = @ + duration,
              !.times = Append(@, duration),
              !.lastCalled = fr.currentTime]

\* (a slip: a failed call leaves no duration sample)
RecordErrorNoSample(s, fr, duration) ==
    [s EXCEPT !.count = @ + 1,
              !.errors = @ + 1,
              !.totalTime = @ + duration,
              !.lastCalled = fr.currentTime]

\* the catch branch of the wrapper
RecordError(s, fr, duration) ==
    [s EXCEPT !.count = @ + 1,
              !.errors = @ + 1,
              !.totalTime = @ + duration,
              !.times = Append(@, duration),
              !.lastCalled = fr.currentTime]

\* the invocations in flight that began while the recorder was active
NumObserved(fs) == Cardinality({i \in 1..Len(fs) : fs[i].mode = "observed"})

\* (a slip: reset() forgets the call count)
ResetRecordKeepsCount(s) ==
    [s EXCEPT !.totalTime = 0, !.times = <<>>,
              !.minTime = Infinity, !.maxTime = 0, !.errors = 0,
              !.lastCalled = Null, !.firstCalled = Null,
              !.callsPerSecond = Zero, !.avgStackDepth = Zero,
              !.totalStackDepth = 0, !.memoryBefore = 0, !.memoryAfter = 0,
              !.callHistory = <<>>]

\* (a slip: reset() leaves the memory sums)
ResetRecordKeepsMemory(s) ==
    [s EXCEPT !.count = 0, !.totalTime = 0, !.times = <<>>,
              !.minTime = Infinity, !.maxTime = 0, !.errors = 0,
              !.lastCalled = Null, !.firstCalled = Null,
              !.callsPerSecond = Zero, !.avgStackDepth = Zero,
              !.totalStackDepth = 0, !.callHistory = <<>>]

\* the body of the forEach in reset()
ResetRecord(s) ==
    [s EXCEPT !.count = 0, !.totalTime = 0, !.times = <<>>,
              !.minTime = Infinity, !.maxTime = 0, !.errors = 0,
              !.lastCalled = Null, !.firstCalled = Null,
              !.callsPerSecond = Zero, !.avgStackDepth = Zero,
              !.totalStackDepth = 0, !.memoryBefore = 0, !.memoryAfter = 0,
              !.callHistory = <<>>]

\* (a slip: the wrapper does not look at isActive)
FrameModeIgnoresActive(f) ==
    IF instance[f] = "original" THEN "direct" ELSE "observed"

\* Which path an invocation of member f takes: the restored original, the
\* wrapper's bypass (if (!this.isActive)), or the measured path.
FrameMode(f) ==
    IF instance[f] = "original" THEN "direct"
    ELSE IF ~isActive THEN "bypass" ELSE "observed"

\* ------------------------------------------------------------------- Init
NoCall == [fn |-> "none", given |-> "none", args |-> "none"]
NoReport == [kind |-> "none", value |-> <<>>]
NoOutcome == [fn |-> "none", mode |-> "none", orig |-> "none", kind |-> "none", value |-> "none"]

\* The state the constructor leaves: every member wrapped, an empty record
\* each, the recorder active.  performance.now() counts from the load of the
\* page, so it is above 0 when the constructor runs.
InitWith(budget) ==
    /\ stats = [f \in Funcs |-> InitialStats]
    /\ originalFunctions = Funcs
    /\ instance = [f \in Funcs |-> "wrapper"]
    /\ callStack = <<>>
    /\ isActive = TRUE
    /\ clock = 1
    /\ startTime = 1
    /\ memory \in BOOLEAN
    /\ frames = <<>>
    /\ applied = NoCall
    /\ handed = NoOutcome
    /\ callsLeft = budget
    /\ destroyed = FALSE
    /\ stale = 0
    /\ log = [f \in Funcs |-> <<>>]
    /\ report = NoReport

Init == InitWith(MaxCalls)

\* ---------------------------------------------------------------- actions

\* The page (or a member that is running) invokes ganttInstance[f](a).
\*   restored member: the original function runs, no wrapper is involved;
\*   wrapper, inactive: the original function is applied directly;
\*   wrapper, active: the start of the call is captured and f is pushed.
Call(f, a, depthLimit) ==
    /\ callsLeft > 0
    /\ Len(frames) < depthLimit
    /\ callsLeft' = callsLeft - 1
    /\ applied' = [fn |-> f, given |-> a, args |-> a]
    /\ handed' = NoOutcome
    /\ IF FrameMode(f) # "observed"
       THEN /\ frames' = Append(frames, [fn |-> f, mode |-> FrameMode(f),
                    currentTime |-> 0, relativeTime |-> 0, stackDepth |-> 0,
                    memoryBefore |-> 0, startTime |-> 0])
            /\ UNCHANGED callStack
       ELSE /\ frames' = Append(frames, [fn |-> f, mode |-> "observed",
                    currentTime |-> clock,
                    relativeTime |-> clock - startTime,
                    stackDepth |-> Len(callStack),
                    memoryBefore |-> UsedJSHeapSize(clock),
                    startTime |-> clock])
            /\ callStack' = Append(callStack, f)
    /\ UNCHANGED <<stats, originalFunctions, instance, isActive, startTime,
                   clock, memory, destroyed, stale, log, report>>

\* (a slip: the catch block does not rethrow)
WrapperOutcomeSwallows(fr, orig, recorded) ==
    IF fr.mode = "observed" /\ ~recorded
    THEN [fn |-> fr.fn, mode |-> fr.mode, orig |-> orig, kind |-> "throw",
          value |-> "TypeError"]
    ELSE IF fr.mode = "observed" /\ orig = "throw"
    THEN [fn |-> fr.fn, mode |-> fr.mode, orig |-> orig, kind |-> "return",
          value |-> "undefined"]
    ELSE [fn |-> fr.fn, mode |-> fr.mode, orig |-> orig, kind |-> orig,
          value |-> IF orig = "return" THEN "result" ELSE "error"]

\* (a slip: the wrapper looks at isActive again after the call)
RecordsOnlyWhileActive(fr) ==
    fr.mode = "observed" /\ isActive /\ fr.fn \in DOMAIN stats

\* Whether the wrapper of frame fr updates a record after the call: it took
\* the measured path and this.stats.get(funcName) is a record.
Records(fr) == fr.mode = "observed" /\ fr.fn \in DOMAIN stats

\* What the wrapper of frame fr hands its caller once the original function
\* ended with `orig` ("return" or "throw") and the statistics were handled.
WrapperOutcome(fr, orig, recorded) ==
    IF fr.mode = "observed" /\ ~recorded
    THEN \* stats.get(funcName) is undefined: stats.count++ raises a TypeError
         \* in the try block and again in the catch block
         [fn |-> fr.fn, mode |-> fr.mode, orig |-> orig, kind |-> "throw", value |-> "TypeError"]
    ELSE [fn |-> fr.fn, mode |-> fr.mode, orig |-> orig, kind |-> orig,
          value |-> IF orig = "return" THEN "result" ELSE "error"]

\* (a slip: funcName declared with var, so every wrapper sees the name of the
\* member wrapped last)
RecordedNameShared(fr) == "g"

\* funcName in this.stats.get(funcName): the name the wrapper closed over
RecordedName(fr) == fr.fn

\* The record of frame fr's function after the wrapper handled the outcome.
UpdatedStats(fr, orig, duration, memoryAfter) ==
    IF orig = "return"
    THEN RecordSuccess(stats[RecordedName(fr)], fr, duration, memoryAfter)
    ELSE RecordError(stats[RecordedName(fr)], fr, duration)

\* The original function of the innermost invocation ran for d milliseconds
\* and then returned (orig = "return") or threw (orig = "throw").
Return(orig, d) ==
    /\ frames # <<>>
    /\ LET fr == frames[Len(frames)]
           endTime == clock + d
           duration == endTime - fr.startTime
           recorded == Records(fr)
       IN  /\ clock' = endTime
           /\ frames' = Pop(frames)
           /\ applied' = NoCall
           /\ handed' = WrapperOutcome(fr, orig, recorded)
           /\ IF recorded
              THEN /\ stats' = [stats EXCEPT ![RecordedName(fr)] =
                         UpdatedStats(fr, orig, duration, UsedJSHeapSize(endTime))]
                   /\ callStack' = Pop(callStack)
              ELSE UNCHANGED <<stats, callStack>>
           /\ log' = IF fr.mode = "observed"
                     THEN [log EXCEPT ![fr.fn] = Append(@,
                              [timestamp |-> fr.relativeTime,
                               duration |-> duration,
                               stackDepth |-> fr.stackDepth,
                               ok |-> orig = "return"])]
                     ELSE log
           /\ stale' = IF fr.mode = "observed" /\ stale = NumObserved(frames)
                     THEN stale - 1 ELSE stale
    /\ UNCHANGED <<originalFunctions, instance, isActive, startTime, memory,
                   callsLeft, destroyed, report>>

start ==
    /\ isActive' = TRUE
    /\ applied' = NoCall
    /\ handed' = NoOutcome
    /\ UNCHANGED <<stats, originalFunctions, instance, callStack, startTime,
                   clock, memory, frames, callsLeft, destroyed, stale, log,
                   report>>

stop ==
    /\ isActive' = FALSE
    /\ applied' = NoCall
    /\ handed' = NoOutcome
    /\ UNCHANGED <<stats, originalFunctions, instance, callStack, startTime,
                   clock, memory, frames, callsLeft, destroyed, stale, log,
                   report>>

reset ==
    /\ startTime' = clock
    /\ callStack' = <<>>
    /\ stats' = [f \in DOMAIN stats |-> ResetRecord(stats[f])]
    /\ log' = [f \in DOMAIN log |-> <<>>]
    /\ stale' = NumObserved(frames)
    /\ applied' = NoCall
    /\ handed' = NoOutcome
    /\ UNCHANGED <<originalFunctions, instance, isActive, clock, memory,
                   frames, callsLeft, destroyed, report>>

\* (a slip: destroy() clears the maps but leaves the wrappers on the instance)
destroyKeepsWrappers ==
    /\ stats' = << >>
    /\ originalFunctions' = {}
    /\ callStack' = <<>>
    /\ isActive' = FALSE
    /\ destroyed' = TRUE
    /\ log' = [f \in DOMAIN log |-> <<>>]
    /\ stale' = NumObserved(frames)
    /\ applied' = NoCall
    /\ handed' = NoOutcome
    /\ UNCHANGED <<instance, startTime, clock, memory, frames, callsLeft, report>>

destroy ==
    /\ instance' = [f \in DOMAIN instance |-> IF f \in originalFunctions
                                    THEN "original" ELSE instance[f]]
    /\ stats' = << >>
    /\ originalFunctions' = {}
    /\ callStack' = <<>>
    /\ isActive' = FALSE
    /\ destroyed' = TRUE
    /\ log' = [f \in DOMAIN log |-> <<>>]
    /\ stale' = NumObserved(frames)
    /\ applied' = NoCall
    /\ handed' = NoOutcome
    /\ UNCHANGED <<startTime, clock, memory, frames, callsLeft, report>>

\* ------------------------------------------------------------- the report

RatLt(p, q) == p[1] * q[2] < q[1] * p[2]

\* (a slip: a - b for b - a, which sorts ascending)
SortAscBy(s, key) ==
    LET n == Len(s)
        Ahead(j, i) == \/ RatLt(key[j], key[i])
                       \/ (~RatLt(key[i], key[j]) /\ j < i)
        rank(i) == Cardinality({j \in 1..n : j # i /\ Ahead(j, i)}) + 1
    IN  [k \in 1..n |-> s[CHOOSE i \in 1..n : rank(i) = k]]

\* Array.prototype.sort((a, b) => key(b) - key(a)): descending by key, and
\* stable.  key[i] is the key of s[i], a quotient.
SortDescBy(s, key) ==
    LET n == Len(s)
        Ahead(j, i) == \/ RatLt(key[i], key[j])
                       \/ (~RatLt(key[j], key[i]) /\ j < i)
        rank(i) == Cardinality({j \in 1..n : j # i /\ Ahead(j, i)}) + 1
    IN  [k \in 1..n |-> s[CHOOSE i \in 1..n : rank(i) = k]]

\* (a slip: the samples are taken in the order of the calls)
SortNot(times) == times

\* [...times].sort((a, b) => a - b): ascending
SortAscending(times) ==
    LET n == Len(times)
        Ahead(j, i) == times[j] < times[i] \/ (times[j] = times[i] /\ j < i)
        rank(i) == Cardinality({j \in 1..n : j # i /\ Ahead(j, i)}) + 1
    IN  [k \in 1..n |-> times[CHOOSE i \in 1..n : rank(i) = k]]

\* (a slip: Math.floor for Math.ceil)
FloorDiv(a, b) == a \div b

\* Math.ceil(a / b) for a >= 0, b > 0
CeilDiv(a, b) == (a + b - 1) \div b

calculatePercentiles(times) ==
    IF Len(times) = 0 THEN [p50 |-> 0, p90 |-> 0, p95 |-> 0, p99 |-> 0]
    ELSE LET sorted == SortAscending(times)
             getPercentile(q) ==
                 LET index == CeilDiv(q * Len(sorted), 100) - 1
                 IN  sorted[Max(0, index) + 1]
         IN  [p50 |-> getPercentile(50), p90 |-> getPercentile(90),
              p95 |-> getPercentile(95), p99 |-> getPercentile(99)]

\* The variance that calculateStdDev takes the square root of; mean = m[1]/m[2]
RECURSIVE SumSqDev(_, _)
SumSqDev(times, m) ==
    IF times = <<>> THEN 0
    ELSE (Head(times) * m[2] - m[1]) * (Head(times) * m[2] - m[1])
         + SumSqDev(Tail(times), m)

\* (a slip: the sample variance, which divides by n - 1)
calculateVarianceSample(times, mean) ==
    IF Len(times) <= 1 THEN Zero
    ELSE Quot(SumSqDev(times, mean), mean[2] * mean[2] * (Len(times) - 1))

\* calculateStdDev(times, mean) is the square root of this quotient; the
\* square root is increasing, so stdDev is 0, or 2, exactly when this is 0, or 4
calculateVariance(times, mean) ==
    IF Len(times) <= 1 THEN Zero
    ELSE Quot(SumSqDev(times, mean), mean[2] * mean[2] * Len(times))

\* (a slip: the fraction, not the percentage)
ErrorRateFraction(s) == IF s.count > 0 THEN Quot(s.errors, s.count) ELSE Zero

\* stats.count > 0 ? (stats.errors / stats.count * 100) : 0
ErrorRate(s) == IF s.count > 0 THEN Quot(s.errors * 100, s.count) ELSE Zero

\* One element of the array getStats() builds, for a record with count > 0
StatsEntry(f) ==
    LET s == stats[f]
        avgTime == Quot(s.totalTime, s.count)
    IN  [function |-> f,
         executions |-> s.count,
         totalTime |-> s.totalTime,
         avgTime |-> avgTime,
         minTime |-> IF s.minTime = Infinity THEN 0 ELSE s.minTime,
         maxTime |-> s.maxTime,
         variance |-> calculateVariance(s.times, avgTime),
         percentiles |-> calculatePercentiles(s.times),
         errors |-> s.errors,
         errorRate |-> ErrorRate(s),
         callsPerSecond |-> s.callsPerSecond,
         avgStackDepth |-> s.avgStackDepth,
         avgMemoryDelta |-> IF s.count > 0
                            THEN Quot(s.memoryAfter - s.memoryBefore, s.count * 1024)
                            ELSE Zero,
         efficiency |-> IF s.totalTime > 0 THEN Quot(s.count, s.totalTime) ELSE Zero,
         recentCalls |-> SliceLast(s.callHistory, RecentCount)]

Observed(f) == f \in DOMAIN stats /\ stats[f].count > 0

\* getStats(): the entries of the records with count > 0, in the order of the
\* map, sorted by executions descending
getStats ==
    LET names == SelectSeq(FuncOrder, Observed)
        entries == [i \in 1..Len(names) |-> StatsEntry(names[i])]
    IN  SortDescBy(entries, [i \in 1..Len(names) |-> Quot(entries[i].executions, 1)])

\* (a slip: slice() without its bounds, which copies the whole array)
SliceWhole(s, n) == s

\* Array.prototype.slice(0, n): the first n elements
SliceFirst(s, n) == SubSeq(s, 1, Min(n, Len(s)))

\* the keys the comparators of getHotspots() subtract
ByAvgTime(s) == [i \in 1..Len(s) |-> s[i].avgTime]
ByExecutions(s) == [i \in 1..Len(s) |-> Quot(s[i].executions, 1)]
ByTotalTime(s) == [i \in 1..Len(s) |-> Quot(s[i].totalTime, 1)]
ByErrorRate(s) == [i \in 1..Len(s) |-> s[i].errorRate]

\* (a slip: the filter of errorProne lets every entry through)
HasErrorsOrNot(e) == TRUE

\* s => s.errors > 0
HasErrors(e) == e.errors > 0

\* getHotspots(): sort() reorders the one array getStats() returned, so each
\* sort starts from the order the one before it left; slice() and filter()
\* copy.
getHotspots ==
    LET statsArray == getStats
        byAvgTime == SortDescBy(statsArray, ByAvgTime(statsArray))
        byExecutions == SortDescBy(byAvgTime, ByExecutions(byAvgTime))
        byTotalTime == SortDescBy(byExecutions, ByTotalTime(byExecutions))
        withErrors == SelectSeq(byTotalTime, HasErrors)
    IN  [slowest |-> SliceFirst(byAvgTime, HotspotCount),
         mostCalled |-> SliceFirst(byExecutions, HotspotCount),
         timeConsumers |-> SliceFirst(byTotalTime, HotspotCount),
         errorProne |-> SliceFirst(SortDescBy(withErrors, ByErrorRate(withErrors)),
                                   HotspotCount)]

\* The page asks for the statistics; nothing but the console is written.
GetStats ==
    /\ report' = [kind |-> "stats", value |-> getStats]
    /\ UNCHANGED <<stats, originalFunctions, instance, callStack, isActive,
                   startTime, clock, memory, frames, applied, handed,
                   callsLeft, destroyed, stale, log>>

\* The page asks for the hotspots; nothing but the console is written.
GetHotspots ==
    /\ report' = [kind |-> "hotspots", value |-> getHotspots]
    /\ UNCHANGED <<stats, originalFunctions, instance, callStack, isActive,
                   startTime, clock, memory, frames, applied, handed,
                   callsLeft, destroyed, stale, log>>


\* ------------------------------------------------------- specifications
Next ==
    \/ \E f \in Funcs, a \in Args : Call(f, a, MaxCalls)
    \/ \E d \in Durations : Return("return", d)
    \/ \E d \in Durations : Return("throw", d)
    \/ start
    \/ stop
    \/ reset
    \/ destroy

Spec == Init /\ [][Next]_vars

\* A page that calls one member over and over, never nested, each call taking
\* one millisecond: long enough a run for callHistory to reach its capacity.
InitRing == InitWith(RingCalls)

NextRing ==
    \/ Call("f", "a1", 1)
    \/ Return("return", 1)
    \/ Return("throw", 1)

SpecRing == InitRing /\ [][NextRing]_vars

\* A page whose calls are over when it asks for a report.  The recorder wraps
\* all six members; each member was called, never nested, one call after the
\* other and one member after the other, with the outcomes and durations of
\* its history.  The records are what the wrapper made of these calls.
Ok(d) == [ok |-> TRUE, duration |-> d]
Failed(d) == [ok |-> FALSE, duration |-> d]
OkAll(ds) == [i \in 1..Len(ds) |-> Ok(ds[i])]
Ramp(n) == [i \in 1..n |-> Ok(i)]
RampDown(n) == [i \in 1..n |-> Ok(n + 1 - i)]

RECURSIVE SeqsUpTo(_, _)
SeqsUpTo(S, n) ==
    IF n = 0 THEN {<<>>}
    ELSE LET shorter == SeqsUpTo(S, n - 1)
         IN  shorter \cup {Append(h, c) : h \in shorter, c \in S}

\* the histories of a member that is the only one called
SampleHistories ==
    {OkAll(<<2, 4, 4, 4, 5, 5, 7, 9>>)}
    \cup {Ramp(n) : n \in 1..MaxRamp} \cup {RampDown(n) : n \in 1..MaxRamp}
    \cup SeqsUpTo({Ok(1), Ok(2), Ok(3), Failed(2)}, MaxSamples)

\* the histories of a member among six
MemberHistories ==
    {<<>>, <<Ok(1)>>, <<Failed(3)>>, <<Ok(3), Failed(1)>>}

ReportInputs ==
    {[m \in AllFuncs |-> IF m = "f" THEN h ELSE <<>>] : h \in SampleHistories}
    \cup [AllFuncs -> MemberHistories]

\* the wrapper's capture at the start of a call at time t, outside every
\* other call, by a recorder constructed at time 1
FrameAt(m, t) ==
    [fn |-> m, mode |-> "observed", currentTime |-> t, relativeTime |-> t - 1,
     stackDepth |-> 0, memoryBefore |-> UsedJSHeapSize(t), startTime |-> t]

\* the record s of member m after the calls of h, the first starting at time t
RECURSIVE Replayed(_, _, _, _)
Replayed(s, m, h, t) ==
    IF h = <<>> THEN s
    ELSE LET c == Head(h)
             after == IF c.ok
                      THEN RecordSuccess(s, FrameAt(m, t), c.duration,
                                         UsedJSHeapSize(t + c.duration))
                      ELSE RecordError(s, FrameAt(m, t), c.duration)
         IN  CHOOSE r \in {Replayed(s2, m, h2, t2) :
                              s2 \in {after}, h2 \in {Tail(h)},
                              t2 \in {t + c.duration}} : TRUE

RECURSIVE ReplayedLog(_, _)
ReplayedLog(h, t) ==
    IF h = <<>> THEN <<>>
    ELSE <<[timestamp |-> t - 1, duration |-> Head(h).duration,
            stackDepth |-> 0, ok |-> Head(h).ok]>>
         \o ReplayedLog(Tail(h), t + Head(h).duration)

RECURSIVE Elapsed(_)
Elapsed(h) == IF h = <<>> THEN 0 ELSE Head(h).duration + Elapsed(Tail(h))

RECURSIVE StartOf(_, _)
StartOf(hs, i) ==
    IF i = 1 THEN 1 ELSE StartOf(hs, i - 1) + Elapsed(hs[FuncOrder[i - 1]])

IndexOf(m) == CHOOSE i \in 1..Len(FuncOrder) : FuncOrder[i] = m

InitReport ==
    /\ memory \in BOOLEAN
    /\ \E hs \in ReportInputs :
           /\ stats = [m \in AllFuncs |->
                          Replayed(InitialStats, m, hs[m], StartOf(hs, IndexOf(m)))]
           /\ log = [m \in AllFuncs |-> ReplayedLog(hs[m], StartOf(hs, IndexOf(m)))]
           /\ clock = StartOf(hs, Len(FuncOrder)) + Elapsed(hs[FuncOrder[Len(FuncOrder)]])
    /\ originalFunctions = AllFuncs
    /\ instance = [m \in AllFuncs |-> "wrapper"]
    /\ callStack = <<>>
    /\ isActive = TRUE
    /\ startTime = 1
    /\ frames = <<>>
    /\ applied = NoCall
    /\ handed = NoOutcome
    /\ callsLeft = 0
    /\ destroyed = FALSE
    /\ stale = 0
    /\ report = NoReport

NextReport ==
    \/ GetStats
    \/ GetHotspots

SpecReport == InitReport /\ [][NextReport]_vars


\* ------------------------------------------------------------ the claims
\* The history variable log holds, per member, one entry for every
\* observation (an invocation that began while the recorder was active) that
\* completed since the last reset(), in the order of completion.

Durs(l) == [i \in 1..Len(l) |-> l[i].duration]
AllOk(l) == \A i \in 1..Len(l) : l[i].ok
NumFailed(l) == Cardinality({i \in 1..Len(l) : ~l[i].ok})

\* C1: after n >= 1 observations of a member that all ended in success, with
\* durations d1..dn, since construction or the last reset, the member's entry
\* in getStats() has executions = n, totalTime = d1+...+dn, minTime = min(di)
\* and maxTime = max(di).
C1_SuccessAggregates ==
    LET snapshot == getStats
    IN  \A f \in DOMAIN stats :
            (log[f] # <<>> /\ AllOk(log[f])) =>
                \E i \in 1..Len(snapshot) :
                    /\ snapshot[i].function = f
                    /\ snapshot[i].executions = Len(log[f])
                    /\ snapshot[i].totalTime = SumSeq(Durs(log[f]))
                    /\ snapshot[i].minTime = MinSeq(Durs(log[f]))
                    /\ snapshot[i].maxTime = MaxSeq(Durs(log[f]))

\* C1's case: two or more successful observations of one member, of different
\* durations, one of them nested in another observation.
C1_Witness ==
    \E f \in DOMAIN stats :
        /\ Len(log[f]) >= 2 /\ AllOk(log[f])
        /\ MinSeq(Durs(log[f])) < MaxSeq(Durs(log[f]))
        /\ \E i \in 1..Len(log[f]) : log[f][i].stackDepth > 0
        /\ stats[f].count = Len(log[f])

\* C2: every record has errors <= count, after any sequence of wrapped calls,
\* start(), stop() and reset().
C2_ErrorsAtMostCount ==
    \A f \in DOMAIN stats : stats[f].errors <= stats[f].count

\* C2's case: a record that saw failures and successes, after a reset() that
\* cleared an earlier history.
C2_Witness ==
    \E f \in DOMAIN stats :
        /\ stats[f].errors >= 1
        /\ stats[f].count > stats[f].errors
        /\ startTime > 1

\* C3: every record holds as many duration samples as its call count; a failed
\* call adds a sample as a successful one does, and reset() clears both.
C3_SamplesEqualCount ==
    \A f \in DOMAIN stats : Len(stats[f].times) = stats[f].count

\* C3's case: a record with a failed and a successful call, both sampled.
C3_Witness ==
    \E f \in DOMAIN stats :
        /\ stats[f].errors >= 1
        /\ stats[f].count > stats[f].errors
        /\ Len(stats[f].times) = stats[f].count

\* What a callHistory entry and a log entry say about the same call.
Shown(e) == [timestamp |-> e.timestamp, duration |-> e.duration,
             stackDepth |-> e.stackDepth]
ShownSeq(l) == [i \in 1..Len(l) |-> Shown(l[i])]
IsOk(e) == e.ok

\* C4: callHistory never holds more than 10 entries, and an entry added at
\* capacity evicts the oldest one: callHistory is always the last 10 (or
\* fewer) of the calls it recorded, oldest first.
C4_HistoryBounded ==
    \A f \in DOMAIN stats :
        /\ Len(stats[f].callHistory) <= HistoryCap
        /\ ShownSeq(stats[f].callHistory) =
               SliceLast(ShownSeq(SelectSeq(log[f], IsOk)), HistoryCap)

\* C4's case: more than 10 calls were recorded, so an entry was evicted.
C4_Witness ==
    \E f \in DOMAIN stats :
        /\ Len(SelectSeq(log[f], IsOk)) > HistoryCap
        /\ Len(stats[f].callHistory) = HistoryCap

\* C5: after n >= 5 completed observations of a member since the last reset,
\* whatever their outcome, recentCalls of its entry in getStats() is exactly
\* the entries of the 5 most recently completed ones, oldest first.
C5_RecentIsLastFive ==
    LET snapshot == getStats
    IN  \A f \in DOMAIN stats :
            Len(log[f]) >= RecentCount =>
                \E i \in 1..Len(snapshot) :
                    /\ snapshot[i].function = f
                    /\ ShownSeq(snapshot[i].recentCalls) =
                           SliceLast(ShownSeq(log[f]), RecentCount)

\* C6: errorRate of every entry of getStats() is errors / executions * 100,
\* errors and executions being the failed and the completed observations of
\* the member; after 10 completed calls of which 2 failed it is 20.
C6_ErrorRate ==
    LET snapshot == getStats
    IN  /\ \A i \in 1..Len(snapshot) :
               LET f == snapshot[i].function
               IN  /\ snapshot[i].executions = Len(log[f])
                   /\ snapshot[i].errors = NumFailed(log[f])
                   /\ RatEq(snapshot[i].errorRate,
                            Quot(NumFailed(log[f]) * 100, Len(log[f])))
        /\ \A f \in DOMAIN stats :
               (Len(log[f]) = 10 /\ NumFailed(log[f]) = 2) =>
                   \E i \in 1..Len(snapshot) :
                       /\ snapshot[i].function = f
                       /\ snapshot[i].errorRate[1] = 20 * snapshot[i].errorRate[2]

\* C6's case: 10 completed calls of a member, 2 of them failed.
C6_Witness ==
    \E f \in DOMAIN stats :
        /\ Len(log[f]) = 10 /\ NumFailed(log[f]) = 2
        /\ stats[f].count = 10 /\ stats[f].errors = 2

NoLog == [f \in Funcs |-> <<>>]

\* C7: reset() followed at once by getStats() gives the empty sequence, after
\* any history; one observation of a member f completed after that gives a
\* snapshot of exactly one entry, for f, with executions = 1.
C7_ResetThenOne ==
    LET snapshot == getStats
    IN  ~destroyed =>
            /\ log = NoLog => snapshot = <<>>
            /\ \A f \in Funcs :
                   (Len(log[f]) = 1 /\ \A g \in Funcs \ {f} : log[g] = <<>>) =>
                       /\ Len(snapshot) = 1
                       /\ snapshot[1].function = f
                       /\ snapshot[1].executions = 1

\* C7's case: a history, then a reset() (startTime moved), then one
\* observation.
C7_Witness ==
    /\ ~destroyed
    /\ startTime > 1
    /\ \E f \in Funcs :
           /\ Len(log[f]) = 1 /\ \A g \in Funcs \ {f} : log[g] = <<>>
           /\ Len(getStats) = 1

\* The innermost invocation in flight, and whether this step starts or ends one.
Top == frames[Len(frames)]
Starts == Len(frames') = Len(frames) + 1
Ends == Len(frames') = Len(frames) - 1
OriginalValue(orig) == IF orig = "return" THEN "result" ELSE "error"

\* C8: while the recorder is inactive, a call of a wrapped member changes no
\* record and not the callStack, applies the original function to the
\* arguments it was given and hands the original's result, or its error, to
\* the caller.
C8_InactiveBypass ==
    [][ /\ (Starts /\ ~isActive /\ instance[applied'.fn] = "wrapper") =>
               /\ stats' = stats
               /\ callStack' = callStack
               /\ applied'.args = applied'.given
               /\ frames'[Len(frames')].mode = "bypass"
        /\ (Ends /\ Top.mode = "bypass") =>
               /\ stats' = stats
               /\ callStack' = callStack
               /\ handed'.kind = handed'.orig
               /\ handed'.value = OriginalValue(handed'.orig)
      ]_vars

\* C8's case: after stop(), with calls on record, a wrapped member was called
\* and threw.
C8_Witness ==
    /\ handed.mode = "bypass" /\ handed.orig = "throw" /\ handed.kind = "throw"
    /\ ~isActive /\ ~destroyed
    /\ \E f \in DOMAIN stats : stats[f].count > 0

ObservedNames ==
    LET obs == SelectSeq(frames, LAMBDA fr : fr.mode = "observed")
    IN  [i \in 1..Len(obs) |-> obs[i].fn]
LiveNames == SubSeq(ObservedNames, stale + 1, Len(ObservedNames))

\* C10: an observation that began while active completes normally when stop()
\* was called in the meantime (count, duration and sample recorded, its entry
\* popped); a call that began while inactive records and pops nothing, also
\* when start() was called in the meantime; so the callStack holds exactly the
\* entries of the observed calls in flight, whatever the mode changes.
C10_ModeChange ==
    [][ /\ (Ends /\ Top.mode = "observed" /\ Top.fn \in DOMAIN stats /\ ~isActive) =>
               LET f == Top.fn
                   duration == clock' - Top.startTime
               IN  /\ stats'[f].count = stats[f].count + 1
                   /\ stats'[f].totalTime = stats[f].totalTime + duration
                   /\ stats'[f].times = Append(stats[f].times, duration)
                   /\ callStack' = Pop(callStack)
                   /\ (callStack # <<>> => callStack[Len(callStack)] = f)
        /\ (Ends /\ Top.mode = "bypass" /\ isActive) =>
               /\ stats' = stats
               /\ callStack' = callStack
        /\ (callStack = LiveNames)'
      ]_vars

\* C10's case: stop() was called during an observation, which then completed
\* and popped its own entry.
C10_Witness ==
    /\ handed.mode = "observed" /\ ~isActive /\ ~destroyed
    /\ stats[handed.fn].count >= 1
    /\ stale = 0
    /\ Len(frames) >= 1 /\ Len(callStack) = Len(frames)


\* What destroy() leaves, in the state after a step.
TornDown ==
    /\ \A f \in DOMAIN instance' : instance'[f] = "original"
    /\ stats' = << >>
    /\ originalFunctions' = {}
    /\ callStack' = <<>>
RecorderUnchanged ==
    UNCHANGED <<stats, originalFunctions, instance, callStack, isActive, startTime>>

\* C15: after destroy(), every member that had been wrapped is the original
\* function again, the stats map and the stored originals are empty, the
\* callStack is empty and the recorder is inactive; from then on the members
\* stay restored and the maps and the callStack empty, and a later call of a
\* member, from its start to its end, changes no state of the recorder.
C15_Destroy ==
    [][ /\ (destroyed' /\ ~destroyed) => (TornDown /\ ~isActive')
        /\ destroyed => TornDown
        /\ (destroyed /\ Starts) =>
               /\ frames'[Len(frames')].mode = "direct"
               /\ RecorderUnchanged
        /\ (Ends /\ Top.mode = "direct") =>
               /\ RecorderUnchanged
               /\ handed'.kind = handed'.orig
      ]_vars

\* C15's case: after destroy(), a member was called and its call ended.
C15_Witness ==
    /\ destroyed
    /\ handed.mode = "direct"
    /\ clock > 1
    /\ \A f \in DOMAIN instance : instance[f] = "original"

StackDepths(l) == [i \in 1..Len(l) |-> l[i].stackDepth]

\* C16: avgStackDepth of every entry of getStats() is totalStackDepth /
\* executions, totalStackDepth being the sum, over all the observations of the
\* member completed since the last reset, failed ones included, of the size
\* the callStack had when the observation started.
C16_AvgStackDepth ==
    LET snapshot == getStats
    IN  \A i \in 1..Len(snapshot) :
            RatEq(snapshot[i].avgStackDepth,
                  Quot(SumSeq(StackDepths(log[snapshot[i].function])),
                       snapshot[i].executions))

\* callCount / ((lastObservedAt - firstObservedAt) / 1000) of record s, 0 when
\* the window is 0 or firstObservedAt is unset
Throughput(s) ==
    IF s.firstCalled = Null \/ s.lastCalled - s.firstCalled = 0 THEN Zero
    ELSE Quot(s.count * 1000, s.lastCalled - s.firstCalled)

\* C17: every completed observation, whatever its outcome, sets lastCalled and
\* sets firstCalled if it is unset, and callsPerSecond of every entry of
\* getStats() is count / ((lastCalled - firstCalled) / 1000) of the record as
\* it is when the snapshot is taken, 0 when that window is 0 or firstCalled is
\* unset.
C17_Throughput ==
    LET snapshot == getStats
    IN  /\ \A f \in DOMAIN stats :
               log[f] # <<>> => (stats[f].lastCalled # Null /\ stats[f].firstCalled # Null)
        /\ \A i \in 1..Len(snapshot) :
               RatEq(snapshot[i].callsPerSecond, Throughput(stats[snapshot[i].function]))

\* C18: reset() puts every record in the state of a new record (count, errors,
\* totalTime, totalStackDepth and the memory sums 0, samples and callHistory
\* empty, minTime unset, firstCalled and lastCalled null) and keeps the set of
\* record names; a second reset() right after it would leave every record as
\* the first one did.
C18_Reset ==
    [][reset =>
          /\ DOMAIN stats' = DOMAIN stats
          /\ \A f \in DOMAIN stats' :
                 /\ stats'[f] = InitialStats
                 /\ ResetRecord(stats'[f]) = stats'[f]
      ]_vars

\* C18's case: in a browser that reports its heap, after calls that took time,
\* reset() has just been called and every record is as new.
C18_Witness ==
    /\ memory /\ ~destroyed
    /\ startTime > 1
    /\ startTime = clock
    /\ callsLeft < MaxCalls
    /\ applied = NoCall /\ handed = NoOutcome
    /\ DOMAIN stats = Funcs
    /\ \A f \in DOMAIN stats : stats[f] = InitialStats

\* C19: the end of an observation of member f, by return or by throw, changes
\* the record of f and the callStack only: the record of every other member
\* and the rest of the recorder's state stay as they were.
C19_OtherRecords ==
    [][(Ends /\ Top.mode = "observed") =>
          /\ DOMAIN stats' = DOMAIN stats
          /\ \A g \in DOMAIN stats \ {Top.fn} : stats'[g] = stats[g]
          /\ UNCHANGED <<originalFunctions, instance, isActive, startTime>>
      ]_vars

\* C19's case: an observation of one member ended and was recorded while the
\* record of another member held calls.
C19_Witness ==
    /\ handed.mode = "observed"
    /\ handed.fn \in DOMAIN stats
    /\ stats[handed.fn].count > 0
    /\ \E g \in DOMAIN stats \ {handed.fn} : stats[g].count > 0

\* the observed invocations in flight that invocation i is nested in
ObservedBelow(i) == NumObserved(SubSeq(frames, 1, i - 1))

\* C21: in every reachable state the callStack is as long as there are
\* observations in flight (invocations that began while the recorder was
\* active and have not ended), so the stackDepth captured for an observation
\* is the number of observed calls it is nested in; also when reset() is
\* called while observations are in flight.
C21_StackMatchesFlight ==
    ~destroyed =>
        /\ Len(callStack) = NumObserved(frames)
        /\ \A i \in 1..Len(frames) :
               frames[i].mode = "observed" => frames[i].stackDepth = ObservedBelow(i)

\* C22: in every reachable state, every record whose firstCalled and
\* lastCalled are both set has firstCalled <= lastCalled, also when
\* observations of the same member are nested; the clock never goes back.
\* (Stated for the records without a failed call, which are not touched by
\* the catch branch leaving firstCalled unset.)
C22_FirstBeforeLast ==
    \A f \in DOMAIN stats :
        (stats[f].firstCalled # Null /\ stats[f].lastCalled # Null
            /\ stats[f].errors = 0) =>
            stats[f].firstCalled <= stats[f].lastCalled

\* C23: when destroy() was called while an observation was in flight, the
\* wrapper of that observation still hands its caller the outcome of the
\* original function: its return value when it returned, its error when it
\* threw; no error comes from the recorder.
C23_DestroyInFlight ==
    (destroyed /\ handed.mode = "observed") =>
        /\ handed.kind = handed.orig
        /\ handed.value = OriginalValue(handed.orig)

\* -------------------------------------------------- the claims on reports
\* In SpecReport, report holds what the last getStats() or getHotspots()
\* returned; no step changes a record, so stats is what the call read.
IsSnapshot == report.kind = "stats"
IsHotspots == report.kind = "hotspots"
Counted == {m \in DOMAIN stats : stats[m].count > 0}
Squares(ts) == [i \in 1..Len(ts) |-> ts[i] * ts[i]]

\* C11: getStats() returns exactly one entry for each record with count > 0
\* and none for a record with count = 0, in descending order of executions; it
\* returns the empty sequence when no record has count > 0.
C11_SnapshotEntries ==
    IsSnapshot =>
        LET snapshot == report.value
        IN  /\ Len(snapshot) = Cardinality(Counted)
            /\ {snapshot[i].function : i \in 1..Len(snapshot)} = Counted
            /\ \A i \in 1..Len(snapshot) :
                   snapshot[i].executions = stats[snapshot[i].function].count
            /\ \A i, j \in 1..Len(snapshot) :
                   i < j => snapshot[i].executions >= snapshot[j].executions
            /\ (Counted = {} => snapshot = <<>>)

\* C11's case: a snapshot of three or more entries while some record has
\* count = 0, in which a member wrapped later comes first for its greater
\* number of executions.
C11_Witness ==
    /\ IsSnapshot
    /\ Len(report.value) >= 3
    /\ \E m \in DOMAIN stats : stats[m].count = 0
    /\ \E i, j \in 1..Len(report.value) :
           /\ i < j
           /\ IndexOf(report.value[i].function) > IndexOf(report.value[j].function)
           /\ report.value[i].executions > report.value[j].executions

\* ceil(q / 100 * n) for 0 < q <= 100, by its definition
RankOf(q, n) == CHOOSE k \in 1..n : 100 * k >= q * n /\ 100 * (k - 1) < q * n

\* v is the element of rank k (counted from 1) of ts in ascending order
IsOfRank(v, k, ts) ==
    /\ \E j \in 1..Len(ts) : ts[j] = v
    /\ Cardinality({j \in 1..Len(ts) : ts[j] <= v}) >= k
    /\ Cardinality({j \in 1..Len(ts) : ts[j] < v}) < k

\* C12: for every non-empty sequence of n samples and every p of 50, 90, 95,
\* 99, calculatePercentiles returns the element at index ceil(p/100 * n) - 1,
\* clamped to 0..n-1, of the samples in ascending order; on the samples
\* 1, 2, ..., 10 it returns p50 = 5, p90 = 9, p95 = 10, p99 = 10.
C12_NearestRank ==
    IsSnapshot =>
        \A i \in 1..Len(report.value) :
            LET e == report.value[i]
                ts == stats[e.function].times
                n == Len(ts)
            IN  /\ n >= 1
                /\ IsOfRank(e.percentiles.p50, RankOf(50, n), ts)
                /\ IsOfRank(e.percentiles.p90, RankOf(90, n), ts)
                /\ IsOfRank(e.percentiles.p95, RankOf(95, n), ts)
                /\ IsOfRank(e.percentiles.p99, RankOf(99, n), ts)
                /\ (ts = <<1, 2, 3, 4, 5, 6, 7, 8, 9, 10>> =>
                       e.percentiles = [p50 |-> 5, p90 |-> 9, p95 |-> 10, p99 |-> 10])

\* C12's case: a snapshot of a member whose samples are 10, 9, ..., 1, which
\* the function has to sort, and one of a member whose samples are 1, ..., 10.
C12_Witness ==
    /\ IsSnapshot
    /\ Len(report.value) = 1
    /\ stats[report.value[1].function].times \in
           {<<1, 2, 3, 4, 5, 6, 7, 8, 9, 10>>, <<10, 9, 8, 7, 6, 5, 4, 3, 2, 1>>}
    /\ report.value[1].percentiles.p50 = 5
    /\ report.value[1].percentiles.p90 = 9

\* C13: stdDev of a snapshot entry is the population standard deviation of the
\* duration samples about avgTime: its square is the sum of the squared
\* deviations divided by n (not n - 1), which is (n * sum(x^2) - sum(x)^2) /
\* n^2; it is 0 when n <= 1; for the samples 2, 4, 4, 4, 5, 5, 7, 9 the
\* variance is 4 and stdDev is 2.
C13_PopulationStdDev ==
    IsSnapshot =>
        \A i \in 1..Len(report.value) :
            LET e == report.value[i]
                ts == stats[e.function].times
                n == Len(ts)
            IN  /\ RatEq(e.avgTime, Quot(SumSeq(ts), n))
                /\ (n <= 1 => RatEq(e.variance, Zero))
                /\ (n > 1 => RatEq(e.variance,
                                   Quot(n * SumSeq(Squares(ts)) - SumSeq(ts) * SumSeq(ts),
                                        n * n)))
                /\ (ts = <<2, 4, 4, 4, 5, 5, 7, 9>> => RatEq(e.variance, Quot(4, 1)))

\* C13's case: a snapshot of a member whose samples are 2, 4, 4, 4, 5, 5, 7, 9.
C13_Witness ==
    /\ IsSnapshot
    /\ \E i \in 1..Len(report.value) :
           /\ stats[report.value[i].function].times = <<2, 4, 4, 4, 5, 5, 7, 9>>
           /\ RatEq(report.value[i].variance, Quot(4, 1))


WithErrors == {m \in DOMAIN stats : stats[m].errors > 0}
Listed(l) == {l[i].function : i \in 1..Len(l)}

\* C14: the errorProne list of getHotspots() contains no member whose record
\* has errors = 0, and contains every member with errors > 0 when there are at
\* most 5 of them.
C14_ErrorProne ==
    IsHotspots =>
        LET errorProne == report.value.errorProne
        IN  /\ \A i \in 1..Len(errorProne) :
                   /\ errorProne[i].errors > 0
                   /\ stats[errorProne[i].function].errors > 0
            /\ (Cardinality(WithErrors) <= 5 => Listed(errorProne) = WithErrors)

\* C14's case: hotspots of a recorder where some members, at most 5, failed
\* and another member was called without ever failing.
C14_Witness ==
    /\ IsHotspots
    /\ Cardinality(WithErrors) \in 2..5
    /\ Counted \ WithErrors # {}
    /\ Len(report.value.errorProne) = Cardinality(WithErrors)

\* The keys of the four lists, from the records.
AvgTimeOf == [m \in Counted |-> Quot(stats[m].totalTime, stats[m].count)]
ExecutionsOf == [m \in Counted |-> Quot(stats[m].count, 1)]
TotalTimeOf == [m \in Counted |-> Quot(stats[m].totalTime, 1)]
ErrorRateOf == [m \in Counted |-> Quot(stats[m].errors * 100, stats[m].count)]

\* l lists min(5, |pool|) different members of pool, in descending order of
\* key, and no member of pool that it omits has a key above a listed one
IsTopFive(l, key, pool) ==
    /\ Len(l) = Min(5, Cardinality(pool))
    /\ Listed(l) \subseteq pool
    /\ Cardinality(Listed(l)) = Len(l)
    /\ \A i, j \in 1..Len(l) :
           i < j => ~RatLt(key[l[i].function], key[l[j].function])
    /\ \A m \in pool \ Listed(l) : \A i \in 1..Len(l) :
           ~RatLt(key[l[i].function], key[m])

\* C20: slowest, mostCalled and timeConsumers of getHotspots() each have
\* min(5, k) entries, k the number of records with count > 0, in descending
\* order of avgTime, executions and totalTime, and no omitted record has a key
\* above a listed one; errorProne is likewise the top 5 by errorRate of the
\* records with errors > 0; and the call changes no record and no other state
\* of the recorder.
C20_Hotspots ==
    [][report'.kind = "hotspots" =>
          /\ UNCHANGED <<stats, originalFunctions, instance, callStack,
                         isActive, startTime>>
          /\ IsTopFive(report'.value.slowest, AvgTimeOf, Counted)
          /\ IsTopFive(report'.value.mostCalled, ExecutionsOf, Counted)
          /\ IsTopFive(report'.value.timeConsumers, TotalTimeOf, Counted)
          /\ IsTopFive(report'.value.errorProne, ErrorRateOf, WithErrors)]_vars

\* C20's case: hotspots of a recorder all six members of which were called and
\* failed, so that each list leaves one out, and where the slowest member is
\* not the most called one.
C20_Witness ==
    /\ IsHotspots
    /\ Cardinality(Counted) = 6
    /\ Cardinality(WithErrors) = 6
    /\ Len(report.value.slowest) = 5
    /\ Len(report.value.errorProne) = 5
    /\ report.value.slowest[1].function # report.value.mostCalled[1].function


\* the durations of the successful calls of l
OkDurs(l) == Durs(SelectSeq(l, IsOk))
Whole(n) == Quot(n, 1)

=============================================================================
